---- MODULE Spec2Model ----
(***************************************************************************)
(* A model of triage's catwalk evaluation engine                           *)
(* (src/src/triage/component/catwalk/evaluation.py): the threshold         *)
(* binarizer generate_binary_at_x, the ModelEvaluator constructor with its *)
(* metric registry, the evaluation generator, evaluate, and the            *)
(* delete-then-insert write to the results tables.                         *)
(***************************************************************************)
EXTENDS Integers, Sequences, FiniteSets, TLC

(***************************************************************************)
(* Bounds of the model.                                                    *)
(***************************************************************************)
\* longest prediction list handed to generate_binary_at_x on its own
MaxLen == 50
\* largest percentile / top_n cutoff handed to generate_binary_at_x on its own
MaxCutoff == 100

(***************************************************************************)
(* Python floats.  evaluation.py:26 computes                               *)
(*     int(len(test_predictions) * (x_value / 100.00))                     *)
(* in IEEE-754 binary64: one correctly rounded division, one correctly     *)
(* rounded multiplication, then truncation.  A positive float is modelled  *)
(* by its 53-bit significand, held as the leading bit 1 and four limbs of  *)
(* 13 bits (most significant first), and by the exponent of the leading    *)
(* bit: its value is (2^52 + Limbs) * 2^(exp - 52).                        *)
(***************************************************************************)
\* bits in one limb of the significand (4 * 13 = 52 bits after the leading one)
LimbBits == 13

RECURSIVE Pow2(_)
Pow2(k) == IF k = 0 THEN 1 ELSE 2 * Pow2(k - 1)

LimbBase == Pow2(LimbBits)

RECURSIVE BitLength(_)
BitLength(n) == IF n = 0 THEN 0 ELSE 1 + BitLength(n \div 2)

FloatZero == [zero |-> TRUE, limbs |-> <<0, 0, 0, 0>>, exp |-> 0]

RECURSIVE ScaleUp(_, _, _)
\* smallest k with num * 2^k >= den, as <<num * 2^k, k>>
ScaleUp(num, den, k) ==
    IF num >= den THEN <<num, k>> ELSE ScaleUp(2 * num, den, k + 1)

RECURSIVE ScaleDown(_, _, _)
\* largest k with den * 2^k <= num, as <<den * 2^k, k>>
ScaleDown(num, den, k) ==
    IF 2 * den > num THEN <<den, k>> ELSE ScaleDown(num, 2 * den, k + 1)

\* top * 2^52 + limbs with amount added at the lowest limb (amount may be
\* negative, down to minus the lowest limb), as <<top, limbs>> with every
\* limb below LimbBase again
AddLow(top, limbs, amount) ==
    LET t4 == limbs[4] + amount
        t3 == limbs[3] + t4 \div LimbBase
        t2 == limbs[2] + t3 \div LimbBase
        t1 == limbs[1] + t2 \div LimbBase
    IN  <<top + t1 \div LimbBase,
          <<t1 % LimbBase, t2 % LimbBase, t3 % LimbBase, t4 % LimbBase>> >>

\* float(x) / float(d) for integers x >= 0, d > 0: the quotient rounded to
\* nearest, ties to even
FloatDiv(x, d) ==
    IF x = 0 THEN FloatZero
    ELSE LET hi == x >= d
             sc == IF hi THEN ScaleDown(x, d, 0) ELSE ScaleUp(x, d, 0)
             num == IF hi THEN x ELSE sc[1]
             den == IF hi THEN sc[1] ELSE d
             exp == IF hi THEN sc[2] ELSE 0 - sc[2]
             \* den <= num < 2 * den: the leading bit is 1; then 4 limbs
             r0 == num - den
             d1 == (r0 * LimbBase) \div den
             r1 == (r0 * LimbBase) % den
             d2 == (r1 * LimbBase) \div den
             r2 == (r1 * LimbBase) % den
             d3 == (r2 * LimbBase) \div den
             r3 == (r2 * LimbBase) % den
             d4 == (r3 * LimbBase) \div den
             r4 == (r3 * LimbBase) % den
             up == 2 * r4 > den \/ (2 * r4 = den /\ d4 % 2 = 1)
             s == AddLow(1, <<d1, d2, d3, d4>>, IF up THEN 1 ELSE 0)
         IN  IF s[1] = 2
             THEN [zero |-> FALSE, limbs |-> <<0, 0, 0, 0>>, exp |-> exp + 1]
             ELSE [zero |-> FALSE, limbs |-> s[2], exp |-> exp]

\* int(float(n) * f) for an integer 0 <= n < 2^12 and a float f with
\* exponent <= 12: the exact product, rounded to 53 bits (nearest, ties to
\* even), truncated to an integer
IntOfProduct(n, f) ==
    IF n = 0 \/ f.zero THEN 0
    ELSE LET t4 == f.limbs[4] * n
             t3 == f.limbs[3] * n + t4 \div LimbBase
             t2 == f.limbs[2] * n + t3 \div LimbBase
             t1 == f.limbs[1] * n + t2 \div LimbBase
             top == n + t1 \div LimbBase
             p == <<t1 % LimbBase, t2 % LimbBase, t3 % LimbBase, t4 % LimbBase>>
             \* the product has BitLength(top) + 52 bits: drop the low s bits
             s == BitLength(top) - 1
             low == p[4] % Pow2(s)
             half == IF s = 0 THEN 1 ELSE Pow2(s - 1)
             lsb == (p[4] \div Pow2(s)) % 2
             up == s > 0 /\ (low > half \/ (low = half /\ lsb = 1))
             r == AddLow(top, p, (IF up THEN Pow2(s) ELSE 0) - low)
         IN  IF f.exp >= 0
             THEN r[1] * Pow2(f.exp) + r[2][1] \div Pow2(LimbBits - f.exp)
             ELSE r[1] \div Pow2(0 - f.exp)

(***************************************************************************)
(* generate_binary_at_x (evaluation.py:14-33)                              *)
(***************************************************************************)
\* line 26: int(len(test_predictions) * (x_value / 100.00))
percentile_cutoff(n, x_value) ==
    IntOfProduct(n, FloatDiv(x_value, 100))

cutoff_index(test_predictions, x_value, unit) ==
    IF unit = "percentile"
    THEN percentile_cutoff(Len(test_predictions), x_value)
    ELSE x_value

\* the comparison of line 30 inverted
generate_binary_at_x_inverted(test_predictions, x_value, unit) ==
    LET c == cutoff_index(test_predictions, x_value, unit)
    IN  [i \in 1..Len(test_predictions) |-> IF i - 1 >= c THEN 1 ELSE 0]

generate_binary_at_x(test_predictions, x_value, unit) ==
    LET c == cutoff_index(test_predictions, x_value, unit)
    IN  [i \in 1..Len(test_predictions) |-> IF i - 1 < c THEN 1 ELSE 0]

(***************************************************************************)
(* Python values, as far as the constructor looks at them: the type and,   *)
(* for bool and int, the number (True is 1, False is 0).                   *)
(***************************************************************************)
PyBool(b) == [t |-> "bool", v |-> IF b THEN 1 ELSE 0]
PyInt(k) == [t |-> "int", v |-> k]
PyStr == [t |-> "str", v |-> 0]
PyNone == [t |-> "NoneType", v |-> 0]
\* the attribute is not there: hasattr(...) is False
NoAttribute == [t |-> "absent", v |-> 0]

Numeric(a) == a.t \in {"bool", "int"}

\* a == b: bool is a subclass of int, so True == 1 and False == 0
PyEq(a, b) == IF Numeric(a) /\ Numeric(b) THEN a.v = b.v ELSE a = b

\* a in (t1, t2, ...): some element is a or equals a
PyIn(a, tuple) == \E i \in DOMAIN tuple : PyEq(a, tuple[i])

\* bool(a)
Truthy(a) ==
    CASE a.t \in {"NoneType", "absent"} -> FALSE
      [] Numeric(a) -> a.v # 0
      [] OTHER -> TRUE

(***************************************************************************)
(* ModelEvaluator.available_metrics (evaluation.py:45-58), a class         *)
(* attribute: one dict shared by every evaluator.  A metric function is    *)
(* external; the model keeps its name.                                     *)
(***************************************************************************)
BuiltinMetrics ==
    {"precision@", "recall@", "fbeta@", "f1", "accuracy", "roc_auc",
     "average precision score", "true positives@", "true negatives@",
     "false positives@", "false negatives@", "fpr@"}

builtin_available_metrics == [m \in BuiltinMetrics |-> "metrics"]

\* dict.update(other), other a sequence of [name, met] items
DictUpdate(d, items) ==
    [k \in DOMAIN d \cup {items[i].name : i \in DOMAIN items} |->
        IF \E i \in DOMAIN items : items[i].name = k
        THEN "custom"
        ELSE d[k]]

(***************************************************************************)
(* ModelEvaluator._validate_metrics (evaluation.py:103-113)                *)
(***************************************************************************)
\* line 111: met.greater_is_better not in (True, False)
not_in_true_false(gib) == ~PyIn(gib, <<PyBool(TRUE), PyBool(FALSE)>>)

\* the exception _validate_metrics raises, "none" when it returns
validate_metrics(custom_metrics) ==
    IF \E i \in DOMAIN custom_metrics :
           \/ custom_metrics[i].met.greater_is_better = NoAttribute
           \/ not_in_true_false(custom_metrics[i].met.greater_is_better)
    THEN "ValueError"
    ELSE "none"

(***************************************************************************)
(* ModelEvaluator.__init__ (evaluation.py:93-101).  custom_metrics is      *)
(* [none |-> TRUE] for None, else the dict's items in order.               *)
(***************************************************************************)
\* line 96: sort_seed or int(time.time())
init_sort_seed(sort_seed, now) ==
    IF Truthy(sort_seed) THEN sort_seed.v ELSE now

\* the outcome of __init__: the exception it raises ("none" when it
\* returns) and the registry it leaves
construct(custom_metrics, registry) ==
    IF ~custom_metrics.none /\ custom_metrics.items # <<>>
    THEN LET err == validate_metrics(custom_metrics.items)
         IN  IF err # "none"
             THEN [error |-> err, registry |-> registry]
             ELSE [error |-> "none",
                   registry |-> DictUpdate(registry, custom_metrics.items)]
    ELSE [error |-> "none", registry |-> registry]

(***************************************************************************)
(* Inputs of evaluate.  A label is 0, 1 or NaN; a score is a small integer *)
(* standing for a probability (a larger integer is a larger probability).  *)
(***************************************************************************)
\* the label value standing for float('nan')
NaN == -1

\* numpy.isfinite (line 264, 284)
isfinite(l) == l # NaN

\* str.lower on the letters matrix_type values are spelt with; a string is
\* the sequence of its characters
LowerChar(c) ==
    CASE c = "T" -> "t" [] c = "E" -> "e" [] c = "S" -> "s"
      [] c = "R" -> "r" [] c = "A" -> "a" [] c = "I" -> "i"
      [] c = "N" -> "n" [] OTHER -> c

lower(str) == [i \in DOMAIN str |-> LowerChar(str[i])]

Str_train == <<"t", "r", "a", "i", "n">>
Str_test == <<"t", "e", "s", "t">>

(***************************************************************************)
(* sort_predictions_and_labels(predictions_proba, labels, sort_seed), of   *)
(* catwalk/utils.py: descending score, ties broken by a pseudo-random      *)
(* order that is a function of the seed.  The tie order of the model:      *)
(* input order for an even seed, reverse input order for an odd one.       *)
(***************************************************************************)
TieKey(seed, i) == IF seed % 2 = 0 THEN i ELSE 0 - i

\* the input positions in sorted order
SortedPositions(predictions_proba, seed) ==
    LET n == Len(predictions_proba)
        Before(i, j) ==
            \/ predictions_proba[i] > predictions_proba[j]
            \/ /\ predictions_proba[i] = predictions_proba[j]
               /\ TieKey(seed, i) < TieKey(seed, j)
    IN  [k \in 1..n |->
            CHOOSE i \in 1..n :
                Cardinality({j \in 1..n : Before(j, i)}) = k - 1]

sort_predictions_and_labels(predictions_proba, labels, seed) ==
    LET pos == SortedPositions(predictions_proba, seed)
    IN  [predictions_proba |-> [k \in DOMAIN pos |-> predictions_proba[pos[k]]],
         labels |-> [k \in DOMAIN pos |-> labels[pos[k]]],
         seed |-> seed]

(***************************************************************************)
(* Metric groups (evaluation.py:63-85).  A group is a dict; the model      *)
(* keeps, beside each optional key, whether the key is there.  A dict of   *)
(* parameters or thresholds is the sequence of its [key, val] items.       *)
(***************************************************************************)
\* group.get('parameters', [{}])   (line 239)
group_parameters(group) ==
    IF group.has_parameters THEN group.parameters ELSE << <<>> >>

\* group.get('thresholds', {}).get('percentiles', [])   (line 257)
group_percentiles(group) ==
    IF group.has_thresholds THEN group.percentiles ELSE <<>>

\* group.get('thresholds', {}).get('top_n', [])   (line 277)
group_top_n(group) ==
    IF group.has_thresholds THEN group.top_n ELSE <<>>

RECURSIVE Flatten(_)
\* the concatenation of a sequence of sequences
Flatten(seqs) ==
    IF seqs = <<>> THEN <<>> ELSE Head(seqs) \o Flatten(Tail(seqs))

Count(seq, x) == Cardinality({i \in DOMAIN seq : seq[i] = x})

(***************************************************************************)
(* ModelEvaluator._generate_evaluations (evaluation.py:115-189)            *)
(***************************************************************************)
\* lines 156-157: full_params = parameter_combination.copy();
\* full_params.update(threshold_config)
full_params(parameter_combination, threshold_config) ==
    [i \in DOMAIN parameter_combination |->
        IF \E j \in DOMAIN threshold_config :
               threshold_config[j].key = parameter_combination[i].key
        THEN CHOOSE t \in {threshold_config[j] : j \in DOMAIN threshold_config} :
                 t.key = parameter_combination[i].key
        ELSE parameter_combination[i]]
    \o SelectSeq(threshold_config,
                 LAMBDA t : \A i \in DOMAIN parameter_combination :
                                parameter_combination[i].key # t.key)

RECURSIVE Join(_, _)
\* sep.join(strs)
Join(sep, strs) ==
    IF strs = <<>> THEN ""
    ELSE IF Len(strs) = 1 THEN strs[1]
    ELSE strs[1] \o sep \o Join(sep, Tail(strs))

\* lines 158-161
parameter_string(params) ==
    Join("/", [i \in DOMAIN params |->
                  ToString(params[i].val) \o "_" \o params[i].key])

\* line 143
num_labeled_examples(labels) == Len(labels)

\* line 144, were it the length of the list rather than its count of 1s
num_labeled_above_threshold_len(predictions_binary) == Len(predictions_binary)

\* line 144
num_labeled_above_threshold(predictions_binary) == Count(predictions_binary, 1)

\* line 145
num_positive_labels(labels) == Count(labels, 1)

\* lines 173-176: table_obj is bound only by one of the two branches
generator_table_obj(matrix_type) ==
    IF lower(matrix_type) = Str_train THEN "TrainEvaluation"
    ELSE IF lower(matrix_type) = Str_test THEN "TestEvaluation"
    ELSE "unbound"

\* the names the signature (lines 115-124) binds in the function's scope
GeneratorParameters ==
    {"self", "metrics", "parameters", "threshold_config", "predictions_proba",
     "predictions_binary", "labels", "matrix_type"}

\* line 188: raise metrics.UnknownMetricError().  Inside the function the
\* name metrics is the parameter, a list of names, which has no attribute
\* UnknownMetricError; only unshadowed would it be the metrics module.
unknown_metric_exception ==
    IF "metrics" \in GeneratorParameters
    THEN "AttributeError"
    ELSE "UnknownMetricError"

\* the outcome of one call: the exception raised ("none" when it returns)
\* and the evaluations returned
generate_evaluations(registry, sort_seed, metrics, parameters, threshold_config, predictions_proba, predictions_binary, labels, matrix_type) ==
    LET table_obj == generator_table_obj(matrix_type)
        Unknown(k) == metrics[k] \notin DOMAIN registry
        Unbound(k) == ~Unknown(k) /\ parameters # <<>> /\ table_obj = "unbound"
        failing == {k \in DOMAIN metrics : Unknown(k) \/ Unbound(k)}
        first == CHOOSE k \in failing : \A j \in failing : k <= j
        ForMetric(k) ==
            [j \in DOMAIN parameters |->
                [metric |-> metrics[k],
                 parameter |-> parameter_string(
                                   full_params(parameters[j], threshold_config)),
                 value |-> [metric |-> metrics[k],
                            predictions_proba |-> predictions_proba,
                            predictions_binary |-> predictions_binary,
                            labels |-> labels,
                            parameters |-> parameters[j]],
                 num_labeled_examples |-> num_labeled_examples(labels),
                 num_labeled_above_threshold |->
                     num_labeled_above_threshold(predictions_binary),
                 num_positive_labels |-> num_positive_labels(labels),
                 sort_seed |-> sort_seed,
                 table_obj |-> table_obj]]
    IN  IF failing # {}
        THEN [error |-> IF Unknown(first) THEN unknown_metric_exception
                        ELSE "UnboundLocalError",
              evaluations |-> <<>>]
        ELSE [error |-> "none",
              evaluations |-> Flatten([k \in DOMAIN metrics |-> ForMetric(k)])]

(***************************************************************************)
(* ModelEvaluator.evaluate (evaluation.py:191-306), up to the write        *)
(***************************************************************************)
RECURSIVE boolean_index(_, _)
\* numpy's array[mask]: the entries where the mask is True, in order
boolean_index(array, mask) ==
    IF array = <<>> THEN <<>>
    ELSE (IF Head(mask) THEN <<Head(array)>> ELSE <<>>)
         \o boolean_index(Tail(array), Tail(mask))

\* lines 230-235: the groups to compute, and whether matrix_type was
\* recognized (else ValueError)
metrics_groups_to_compute_or_test(self, matrix_type) ==
    IF lower(matrix_type) = Str_train
    THEN [known |-> TRUE, groups |-> self.training_metric_groups]
    ELSE [known |-> TRUE, groups |-> self.metric_groups]

metrics_groups_to_compute(self, matrix_type) ==
    IF lower(matrix_type) = Str_train
    THEN [known |-> TRUE, groups |-> self.training_metric_groups]
    ELSE IF lower(matrix_type) = Str_test
    THEN [known |-> TRUE, groups |-> self.metric_groups]
    ELSE [known |-> FALSE, groups |-> <<>>]

\* lines 259-275 and 279-295, were the mask of lines 265 and 285 applied to
\* the labels only
thresholded_call_unmasked_classes(group, sorted, x_value, unit, key, matrix_type) ==
    LET predicted_classes ==
            generate_binary_at_x(sorted.predictions_proba, x_value, unit)
        nan_mask == [i \in DOMAIN sorted.labels |-> isfinite(sorted.labels[i])]
    IN  [metrics |-> group.metrics,
         parameters |-> group_parameters(group),
         threshold_config |-> <<[key |-> key, val |-> x_value]>>,
         predictions_proba |-> [none |-> TRUE, list |-> <<>>],
         predictions_binary |-> predicted_classes,
         labels |-> boolean_index(sorted.labels, nan_mask),
         matrix_type |-> matrix_type]

\* lines 259-275 and 279-295: the arguments of the generator call for one
\* threshold
thresholded_call(group, sorted, x_value, unit, key, matrix_type) ==
    LET predicted_classes ==
            generate_binary_at_x(sorted.predictions_proba, x_value, unit)
        nan_mask == [i \in DOMAIN sorted.labels |-> isfinite(sorted.labels[i])]
    IN  [metrics |-> group.metrics,
         parameters |-> group_parameters(group),
         threshold_config |-> <<[key |-> key, val |-> x_value]>>,
         predictions_proba |-> [none |-> TRUE, list |-> <<>>],
         predictions_binary |-> boolean_index(predicted_classes, nan_mask),
         labels |-> boolean_index(sorted.labels, nan_mask),
         matrix_type |-> matrix_type]

\* lines 237-295: the generator calls one group asks for, in order
group_calls(group, predictions_proba, sorted, matrix_type) ==
    (IF ~group.has_thresholds
     THEN <<[metrics |-> group.metrics,
             parameters |-> group_parameters(group),
             threshold_config |-> <<>>,
             predictions_proba |-> [none |-> FALSE, list |-> predictions_proba],
             predictions_binary |->
                 generate_binary_at_x(sorted.predictions_proba, 100, "percentile"),
             labels |-> sorted.labels,
             matrix_type |-> matrix_type]>>
     ELSE <<>>)
    \o [k \in DOMAIN group_percentiles(group) |->
           thresholded_call(group, sorted, group_percentiles(group)[k],
                            "percentile", "pct", matrix_type)]
    \o [k \in DOMAIN group_top_n(group) |->
           thresholded_call(group, sorted, group_top_n(group)[k],
                            "top_n", "abs", matrix_type)]

\* one generator call of evaluate (lines 243, 267, 287)
generator_call(self, registry, args) ==
    generate_evaluations(registry, self.sort_seed, args.metrics, args.parameters, args.threshold_config, args.predictions_proba, args.predictions_binary, args.labels, args.matrix_type)

\* the calls of outcomes up to the first that raises, that one included
calls_made(outcomes) ==
    LET failing == {k \in DOMAIN outcomes : outcomes[k].error # "none"}
    IN  IF failing = {} THEN Len(outcomes)
        ELSE CHOOSE k \in failing : \A j \in failing : k <= j

\* lines 229-295: evaluations grows call by call; an exception of a call
\* leaves evaluate at once
evaluate_groups(sel, sorted, calls, outcomes) ==
    LET made == calls_made(outcomes)
        raised == made > 0 /\ outcomes[made].error # "none"
    IN  [error |-> IF ~sel.known THEN "ValueError"
                   ELSE IF raised THEN outcomes[made].error
                   ELSE "none",
         evaluations |->
             IF ~sel.known \/ raised THEN <<>>
             ELSE Flatten([k \in DOMAIN outcomes |-> outcomes[k].evaluations]),
         generator_calls |->
             [k \in 1..made |-> [args |-> calls[k], outcome |-> outcomes[k]]],
         sorted |-> sorted,
         groups |-> sel.groups]

\* lines 237-295 for every group: the generator calls asked for, in order
all_group_calls(sel, predictions_proba, sorted, matrix_type) ==
    Flatten([g \in DOMAIN sel.groups |->
                group_calls(sel.groups[g], predictions_proba, sorted,
                            matrix_type)])

evaluate_calls(self, registry, sel, sorted, calls) ==
    evaluate_groups(sel, sorted, calls,
                    [k \in DOMAIN calls |->
                        generator_call(self, registry, calls[k])])

evaluate_sorted(self, registry, sel, predictions_proba, sorted, matrix_type) ==
    evaluate_calls(self, registry, sel, sorted,
                   all_group_calls(sel, predictions_proba, sorted, matrix_type))

\* evaluate up to line 297: the exception raised ("none" when the write is
\* reached), the evaluations handed to the write, the generator calls made
\* (each with its outcome), the outcome of the co-sort and the groups chosen
evaluate_outcome(self, registry, predictions_proba, labels, matrix_type) ==
    evaluate_sorted(self, registry,
                    metrics_groups_to_compute(self, matrix_type),
                    predictions_proba,
                    sort_predictions_and_labels(predictions_proba, labels,
                                                self.sort_seed),
                    matrix_type)

(***************************************************************************)
(* ModelEvaluator._write_to_db (evaluation.py:308-350).  The store is the  *)
(* two results tables; a table is the sequence of its committed rows,      *)
(* which is what a reader outside the writing session sees.  A session     *)
(* (sessionmaker(bind=db_engine), line 101: not autocommit) holds what it  *)
(* has done inside its open transaction.                                   *)
(***************************************************************************)
Tables == {"TrainEvaluation", "TestEvaluation"}

NoSession ==
    [open |-> FALSE, table_obj |-> "unbound", deleted |-> FALSE,
     filter |-> <<>>, pending |-> <<>>]

\* lines 330-333: table_obj is bound only by one of the two branches
writer_table_obj(matrix_type) ==
    IF lower(matrix_type) = Str_train THEN "TrainEvaluation"
    ELSE IF lower(matrix_type) = Str_test THEN "TestEvaluation"
    ELSE "unbound"

\* lines 336-341: filter_by(model_id=..., evaluation_start_time=...,
\* evaluation_end_time=..., as_of_date_frequency=...)
filter_by_model_id_only(row, unit) == row.model_id = unit.model_id

filter_by(row, unit) ==
    /\ row.model_id = unit.model_id
    /\ row.evaluation_start_time = unit.evaluation_start_time
    /\ row.evaluation_end_time = unit.evaluation_end_time
    /\ row.as_of_date_frequency = unit.as_of_date_frequency

\* the rows of a table under a key
RowsUnder(table, unit) == SelectSeq(table, LAMBDA row : filter_by(row, unit))

\* lines 344-347: the key fields are set on the evaluation object
stamp(evaluation, unit) ==
    [model_id |-> unit.model_id,
     evaluation_start_time |-> unit.evaluation_start_time,
     evaluation_end_time |-> unit.evaluation_end_time,
     as_of_date_frequency |-> unit.as_of_date_frequency,
     metric |-> evaluation.metric,
     parameter |-> evaluation.parameter,
     value |-> evaluation.value,
     num_labeled_examples |-> evaluation.num_labeled_examples,
     num_labeled_above_threshold |-> evaluation.num_labeled_above_threshold,
     num_positive_labels |-> evaluation.num_positive_labels,
     sort_seed |-> evaluation.sort_seed,
     table_obj |-> evaluation.table_obj]

\* lines 335-341, were the DELETE committed on its own
write_delete_autocommit(store, sess, unit) ==
    [tables |-> [store EXCEPT ![sess.table_obj] =
                     SelectSeq(@, LAMBDA row : ~filter_by(row, unit))],
     session |-> [sess EXCEPT !.deleted = TRUE, !.filter = unit]]

\* lines 335-341: the DELETE runs inside the session's transaction; the
\* committed rows are as they were
write_delete(store, sess, unit) ==
    [tables |-> store,
     session |-> [sess EXCEPT !.deleted = TRUE, !.filter = unit]]

\* lines 344-348: one turn of the loop
write_add(sess, evaluation, unit) ==
    [sess EXCEPT !.pending = Append(@, stamp(evaluation, unit))]

\* line 349: the transaction's DELETE and its INSERTs (each object into the
\* table of its class) take effect together
write_commit(store, sess) ==
    [t \in Tables |->
        (IF sess.deleted /\ sess.table_obj = t
         THEN SelectSeq(store[t], LAMBDA row : ~filter_by(row, sess.filter))
         ELSE store[t])
        \o SelectSeq(sess.pending, LAMBDA row : row.table_obj = t)]

(***************************************************************************)
(* _write_to_db run by several callers at once, each in its own session    *)
(* (self.sessionmaker(), line 329) and so in its own transaction.  The     *)
(* code sets no isolation level and takes no lock of its own, so the       *)
(* store's default applies: a statement sees the rows committed when it    *)
(* runs and the changes of its own transaction; a row deleted by an open   *)
(* transaction is locked until that transaction ends.  A stored row is     *)
(* kept with its identity: the transaction that inserted it and its place  *)
(* in that transaction's batch.                                            *)
(***************************************************************************)
StoredRow(row, txn, seq) == [data |-> row, txn |-> txn, seq |-> seq]

RowId(stored) == <<stored.txn, stored.seq>>

NoWriterSession ==
    [open |-> FALSE, table_obj |-> "unbound", deleted |-> {}, pending |-> <<>>]

\* lines 335-341: the committed rows of the table the query's filter_by
\* matches
matching_rows(store, table_obj, unit) ==
    {RowId(store[table_obj][i]) :
        i \in {j \in DOMAIN store[table_obj] :
                  filter_by(store[table_obj][j].data, unit)}}

\* the rows deleted by the open transactions of the other sessions
locked_by_others(writers, w) ==
    UNION {writers[o].session.deleted : o \in DOMAIN writers \ {w}}

\* lines 335-341 in a session of its own: the rows matched are deleted
\* inside the transaction
session_delete(store, sess, unit) ==
    [sess EXCEPT !.deleted = matching_rows(store, sess.table_obj, unit)]

\* line 349: the rows the transaction deleted go, the objects it added are
\* inserted, each into the table of its class
session_commit(store, sess, txn) ==
    [t \in Tables |->
        LET added == SelectSeq(sess.pending, LAMBDA row : row.table_obj = t)
        IN  SelectSeq(store[t],
                      LAMBDA stored : ~(t = sess.table_obj
                                        /\ RowId(stored) \in sess.deleted))
            \o [i \in DOMAIN added |-> StoredRow(added[i], txn, i)]]

(***************************************************************************)
(* Bounds of the evaluator's environment.                                  *)
(***************************************************************************)
\* evaluate calls in one run
MaxCalls == 2
\* model ids 1..MaxModelId
MaxModelId == 2
\* times db_retry (catwalk/utils.py) runs _write_to_db again after a
\* transient failure before it gives up
MaxRetries == 1
\* seeds a caller supplies: 0..MaxSeed; the wall clock reads beyond them
MaxSeed == 2
\* longest prediction list handed to evaluate in the generator's runs
MaxExamples == 2
\* scores 1..MaxScore
MaxScore == 2

(***************************************************************************)
(* The state.                                                              *)
(***************************************************************************)
VARIABLES
    available_metrics,  \* ModelEvaluator.available_metrics (class attribute)
    evaluator,          \* the evaluator in use: self.metric_groups, ...
    ctor,               \* the last constructor call: arguments and outcome
    tables,             \* the committed rows of the two results tables
    call,               \* the current or last evaluate call
    gen_calls,          \* the generator calls that evaluate call has made
    session,            \* the session of the write in progress
    pc,                 \* where the evaluate call stands
    attempts,           \* failed attempts of the write in progress
    pre_tables,         \* tables as they were when the evaluate call began
    last_batch,         \* per key, the batch of the last evaluate call that returned
    ncalls,             \* evaluate calls made
    nctors,             \* constructor calls made
    b_predictions,      \* generate_binary_at_x on its own: test_predictions
    b_x_value,          \*   x_value
    b_unit,             \*   unit
    b_binary,           \*   the list returned
    w_store,            \* concurrent callers: the committed rows of the tables
    w_writers,          \*   each caller's evaluate call and its session
    w_commits           \*   the callers in the order their commits took effect

evaluator_vars ==
    <<available_metrics, evaluator, ctor, tables, call, gen_calls, session, pc,
      attempts, pre_tables, last_batch, ncalls, nctors>>

binarizer_vars == <<b_predictions, b_x_value, b_unit, b_binary>>

writers_vars == <<w_store, w_writers, w_commits>>

vars == <<evaluator_vars, binarizer_vars, writers_vars>>

\* seed_arg remembers the sort_seed argument the evaluator was built with
NoEvaluator ==
    [constructed |-> FALSE, metric_groups |-> <<>>,
     training_metric_groups |-> <<>>, sort_seed |-> 0, seed_arg |-> PyNone]

NoCtor ==
    [called |-> FALSE, sort_seed |-> PyNone,
     custom_metrics |-> [none |-> TRUE, items |-> <<>>], now |-> 0,
     error |-> "none", registry_before |-> builtin_available_metrics]

NoUnit ==
    [model_id |-> 0, evaluation_start_time |-> 0, evaluation_end_time |-> 0,
     as_of_date_frequency |-> ""]

\* self, registry and groups remember the evaluator, the registry and the
\* groups chosen when the call was made
NoCall ==
    [status |-> "none", predictions_proba |-> <<>>, labels |-> <<>>,
     unit |-> NoUnit, matrix_type |-> <<>>, error |-> "none",
     evaluations |-> <<>>, sorted |-> [predictions_proba |-> <<>>,
                                       labels |-> <<>>, seed |-> 0],
     self |-> NoEvaluator, registry |-> builtin_available_metrics,
     groups |-> <<>>]

EvaluatorInit ==
    /\ available_metrics = builtin_available_metrics
    /\ evaluator = NoEvaluator
    /\ ctor = NoCtor
    /\ tables = [t \in Tables |-> <<>>]
    /\ call = NoCall
    /\ gen_calls = <<>>
    /\ session = NoSession
    /\ pc = "idle"
    /\ attempts = 0
    /\ pre_tables = [t \in Tables |-> <<>>]
    /\ last_batch = {}
    /\ ncalls = 0
    /\ nctors = 0

BinarizerIdle ==
    /\ b_predictions = <<>>
    /\ b_x_value = 0
    /\ b_unit = "none"
    /\ b_binary = <<>>

\* the callers that run evaluate at the same time
Writers == {1, 2}

NoWriter ==
    [pc |-> "start", unit |-> NoUnit, matrix_type |-> <<>>,
     evaluations |-> <<>>, session |-> NoWriterSession]

WritersIdle ==
    /\ w_store = [t \in Tables |-> <<>>]
    /\ w_writers = [w \in Writers |-> NoWriter]
    /\ w_commits = <<>>

Init == EvaluatorInit /\ BinarizerIdle /\ WritersIdle

(***************************************************************************)
(* The operations.  dom names the sets the caller's arguments are drawn    *)
(* from: seeds, customs, configs, clock (constructor); datasets, units,    *)
(* matrix_types (evaluate); and how many calls of each it makes.           *)
(***************************************************************************)
\* ModelEvaluator(metric_groups, training_metric_groups, db_engine,
\*                sort_seed, custom_metrics)
Construct(dom) ==
    /\ pc = "idle"
    /\ nctors < dom.max_constructs
    /\ nctors' = nctors + 1
    /\ \E seed \in dom.seeds, custom \in dom.customs, config \in dom.configs,
          now \in dom.clock :
          LET out == construct(custom, available_metrics)
          IN  /\ ctor' = [called |-> TRUE, sort_seed |-> seed,
                          custom_metrics |-> custom, now |-> now,
                          error |-> out.error,
                          registry_before |-> available_metrics]
              /\ available_metrics' = out.registry
              /\ evaluator' =
                     IF out.error = "none"
                     THEN [constructed |-> TRUE,
                           metric_groups |-> config.metric_groups,
                           training_metric_groups |->
                               config.training_metric_groups,
                           sort_seed |-> init_sort_seed(seed, now),
                           seed_arg |-> seed]
                     ELSE evaluator
    /\ UNCHANGED <<tables, call, gen_calls, session, pc, attempts, pre_tables,
                   last_batch, ncalls, binarizer_vars, writers_vars>>

\* evaluate(...) up to the call of _write_to_db (lines 214-297)
Evaluate(dom) ==
    /\ pc = "idle"
    /\ evaluator.constructed
    /\ ncalls < dom.max_calls
    /\ \E data \in dom.datasets, unit \in dom.units,
          matrix_type \in dom.matrix_types :
          LET out == evaluate_outcome(evaluator, available_metrics,
                                      data.predictions_proba, data.labels,
                                      matrix_type)
          IN  /\ call' = [status |-> IF out.error = "none" THEN "writing"
                                     ELSE "raised",
                          predictions_proba |-> data.predictions_proba,
                          labels |-> data.labels,
                          unit |-> unit,
                          matrix_type |-> matrix_type,
                          error |-> out.error,
                          evaluations |-> out.evaluations,
                          sorted |-> out.sorted,
                          self |-> evaluator,
                          registry |-> available_metrics,
                          groups |-> out.groups]
              /\ gen_calls' = out.generator_calls
              /\ pc' = IF out.error = "none" THEN "write" ELSE "idle"
    /\ pre_tables' = tables
    /\ attempts' = 0
    /\ ncalls' = ncalls + 1
    /\ UNCHANGED <<available_metrics, evaluator, ctor, tables, session,
                   last_batch, nctors, binarizer_vars, writers_vars>>

\* lines 329-333: a new session, the table chosen
WriteBegin ==
    /\ pc = "write"
    /\ session' = [NoSession EXCEPT
                       !.open = TRUE,
                       !.table_obj = writer_table_obj(call.matrix_type)]
    /\ pc' = "opened"
    /\ UNCHANGED <<available_metrics, evaluator, ctor, tables, call, gen_calls,
                   attempts, pre_tables, last_batch, ncalls, nctors, binarizer_vars, writers_vars>>

\* lines 335-341
WriteDelete ==
    /\ pc = "opened"
    /\ LET out == write_delete(tables, session, call.unit)
       IN  /\ tables' = out.tables
           /\ session' = out.session
    /\ pc' = "deleted"
    /\ UNCHANGED <<available_metrics, evaluator, ctor, call, gen_calls,
                   attempts, pre_tables, last_batch, ncalls, nctors, binarizer_vars, writers_vars>>

\* lines 343-348, one evaluation
WriteAdd ==
    /\ pc = "deleted"
    /\ Len(session.pending) < Len(call.evaluations)
    /\ session' = write_add(session,
                            call.evaluations[Len(session.pending) + 1],
                            call.unit)
    /\ UNCHANGED <<available_metrics, evaluator, ctor, tables, call, gen_calls,
                   pc, attempts, pre_tables, last_batch, ncalls, nctors,
                   binarizer_vars, writers_vars>>

\* line 349
WriteCommit ==
    /\ pc = "deleted"
    /\ Len(session.pending) = Len(call.evaluations)
    /\ tables' = write_commit(tables, session)
    /\ pc' = "committed"
    /\ UNCHANGED <<available_metrics, evaluator, ctor, call, gen_calls,
                   session, attempts, pre_tables, last_batch, ncalls, nctors,
                   binarizer_vars, writers_vars>>

\* line 350, and evaluate returns (line 306)
WriteClose ==
    /\ pc = "committed"
    /\ session' = NoSession
    /\ pc' = "idle"
    /\ call' = [call EXCEPT !.status = "returned"]
    /\ last_batch' =
           {e \in last_batch :
                ~(e.table_obj = session.table_obj /\ e.unit = call.unit)}
           \cup {[table_obj |-> session.table_obj, unit |-> call.unit,
                  rows |-> [i \in DOMAIN call.evaluations |->
                               stamp(call.evaluations[i], call.unit)],
                  replaced |-> Len(RowsUnder(pre_tables[session.table_obj],
                                             call.unit))]}
    /\ UNCHANGED <<available_metrics, evaluator, ctor, tables, gen_calls,
                   attempts, pre_tables, ncalls, nctors, binarizer_vars, writers_vars>>

\* @db_retry (line 308; catwalk/utils.py): a statement of the session fails
\* with a transient error before it takes effect; the transaction is never
\* committed, and _write_to_db is run again until MaxRetries are used up,
\* after which the error reaches the caller
WriteFail ==
    /\ pc \in {"opened", "deleted"}
    /\ session' = NoSession
    /\ IF attempts < MaxRetries
       THEN /\ attempts' = attempts + 1
            /\ pc' = "write"
            /\ call' = call
       ELSE /\ attempts' = attempts
            /\ pc' = "idle"
            /\ call' = [call EXCEPT !.status = "raised",
                                    !.error = "OperationalError"]
    /\ UNCHANGED <<available_metrics, evaluator, ctor, tables, gen_calls,
                   pre_tables, last_batch, ncalls, nctors, binarizer_vars, writers_vars>>

Next(dom) ==
    \/ Construct(dom)
    \/ Evaluate(dom)
    \/ WriteBegin
    \/ WriteDelete
    \/ WriteAdd
    \/ WriteCommit
    \/ WriteClose
    \/ WriteFail

(***************************************************************************)
(* The arguments the runs draw from.                                       *)
(***************************************************************************)
Group(metrics) ==
    [metrics |-> metrics, has_parameters |-> FALSE, parameters |-> <<>>,
     has_thresholds |-> FALSE, percentiles |-> <<>>, top_n |-> <<>>]

\* {'metrics': ['f1']}
G_f1 == Group(<<"f1">>)

\* {'metrics': ['precision@', 'recall@'],
\*  'thresholds': {'percentiles': [50], 'top_n': [1]}}
G_precision ==
    [Group(<<"precision@", "recall@">>) EXCEPT
        !.has_thresholds = TRUE, !.percentiles = <<50>>, !.top_n = <<1>>]

\* {'metrics': ['fbeta@'], 'parameters': [{'beta': 1}, {'beta': 2}],
\*  'thresholds': {'percentiles': [100]}}
G_fbeta ==
    [Group(<<"fbeta@">>) EXCEPT
        !.has_parameters = TRUE,
        !.parameters = << <<[key |-> "beta", val |-> 1]>>,
                          <<[key |-> "beta", val |-> 2]>> >>,
        !.has_thresholds = TRUE, !.percentiles = <<100>>]

\* {'metrics': ['f1', 'bogus']}: a name that is never registered
G_bogus_second == Group(<<"f1", "bogus">>)

\* {'metrics': ['bogus'], 'thresholds': {'top_n': [1]}}
G_bogus_top_n ==
    [Group(<<"bogus">>) EXCEPT !.has_thresholds = TRUE, !.top_n = <<1>>]

\* {'metrics': ['bogus'], 'thresholds': {}}
G_bogus_no_threshold_listed ==
    [Group(<<"bogus">>) EXCEPT !.has_thresholds = TRUE]

\* {'metrics': ['custom_a']}: registered only once a caller has supplied it
G_custom == Group(<<"custom_a">>)

Config(metric_groups, training_metric_groups) ==
    [metric_groups |-> metric_groups,
     training_metric_groups |-> training_metric_groups]

MT_Test == <<"T", "e", "s", "t">>
MT_TEST == <<"T", "E", "S", "T">>
MT_train == <<"t", "r", "a", "i", "n">>
MT_Train == <<"T", "r", "a", "i", "n">>
MT_valid == <<"v", "a", "l", "i", "d">>

Dataset(predictions_proba, labels) ==
    [predictions_proba |-> predictions_proba, labels |-> labels]

UnitOf(model_id, evaluation_end_time) ==
    [model_id |-> model_id, evaluation_start_time |-> 0,
     evaluation_end_time |-> evaluation_end_time,
     as_of_date_frequency |-> "1d"]

\* the keys the store's runs write under
AllUnits == {UnitOf(m, e) : m \in 1..MaxModelId, e \in 1..2}

\* what int(time.time()) may read
Clock == {MaxSeed + 1, MaxSeed + 2}

NoCustomMetrics == [none |-> TRUE, items |-> <<>>]

CustomMetrics(items) == [none |-> FALSE, items |-> items]

Metric(name, greater_is_better) ==
    [name |-> name, met |-> [greater_is_better |-> greater_is_better]]

\* the runs of the store: few configurations, every key
StoreDom ==
    [seeds |-> {PyInt(1)},
     customs |-> {NoCustomMetrics},
     configs |-> {Config(<<G_f1>>, <<G_precision>>),
                  Config(<<G_precision, G_f1>>, <<>>),
                  Config(<<G_f1, G_bogus_no_threshold_listed>>,
                         <<G_bogus_top_n, G_f1>>)},
     clock |-> {MaxSeed + 1},
     datasets |-> {Dataset(<<1, 2>>, <<0, 1>>)},
     units |-> AllUnits,
     matrix_types |-> {MT_Test, MT_train, MT_valid},
     max_calls |-> MaxCalls,
     max_constructs |-> 2]

\* the runs of the generator: every small dataset, one key, one call
GeneratorDom ==
    [seeds |-> {PyInt(1), PyInt(2)},
     customs |-> {NoCustomMetrics},
     configs |-> {Config(<<G_precision, G_f1>>, <<G_fbeta>>),
                  Config(<<G_f1, G_bogus_second>>, <<G_bogus_top_n>>)},
     clock |-> {MaxSeed + 1},
     datasets |-> UNION {
         {Dataset(p, l) : p \in [1..n -> 1..MaxScore], l \in [1..n -> {0, 1, NaN}]}
         : n \in 0..MaxExamples},
     units |-> {UnitOf(1, 1)},
     matrix_types |-> {MT_Test, MT_Train},
     max_calls |-> 1,
     max_constructs |-> 1]

\* the runs of the constructor: every seed and custom-metric declaration
ConstructorDom ==
    [seeds |-> {PyNone} \cup {PyInt(k) : k \in 0..MaxSeed},
     customs |->
         {NoCustomMetrics, CustomMetrics(<<>>)}
         \cup {CustomMetrics(<<Metric("custom_a", g)>>) :
                  g \in {PyBool(TRUE), PyBool(FALSE), PyInt(0), PyInt(1),
                         PyInt(2), PyStr, PyNone, NoAttribute}}
         \cup {CustomMetrics(<<Metric("custom_a", PyBool(TRUE)),
                               Metric("custom_b", g)>>) :
                  g \in {PyBool(FALSE), PyStr, NoAttribute}},
     configs |-> {Config(<<G_custom, G_f1>>, <<G_f1>>)},
     clock |-> Clock,
     datasets |-> {Dataset(<<2, 2>>, <<1, 0>>)},
     units |-> {UnitOf(1, 1)},
     matrix_types |-> {MT_TEST, MT_train},
     max_calls |-> 1,
     max_constructs |-> 2]

Spec == Init /\ [][Next(StoreDom)]_vars

SpecGenerate == Init /\ [][Next(GeneratorDom)]_vars

SpecConstruct == Init /\ [][Next(ConstructorDom)]_vars

(***************************************************************************)
(* generate_binary_at_x on its own                                         *)
(***************************************************************************)
Units == {"percentile", "top_n"}

BInit ==
    /\ EvaluatorInit
    /\ WritersIdle
    /\ \E n \in 0..MaxLen : b_predictions = [i \in 1..n |-> n - i]
    /\ b_x_value = 0
    /\ b_unit = "none"
    /\ b_binary = <<>>

Binarize ==
    /\ \E x \in 0..MaxCutoff, u \in Units :
        /\ b_binary' = generate_binary_at_x(b_predictions, x, u)
        /\ b_x_value' = x
        /\ b_unit' = u
    /\ UNCHANGED <<b_predictions, evaluator_vars, writers_vars>>

SpecBinarize == BInit /\ [][Binarize]_vars

(***************************************************************************)
(* Two callers, each with an evaluator of its own (told apart by its       *)
(* sort_seed), run evaluate at the same time against one store.            *)
(***************************************************************************)
ConcurrentDom ==
    [configs |-> {Config(<<G_f1>>, <<>>), Config(<<G_precision>>, <<>>)},
     datasets |-> {Dataset(<<1, 2>>, <<0, 1>>)},
     units |-> {UnitOf(1, 1), UnitOf(1, 2)},
     matrix_types |-> {MT_Test}]

WriterSelf(w, config) ==
    [constructed |-> TRUE, metric_groups |-> config.metric_groups,
     training_metric_groups |-> config.training_metric_groups,
     sort_seed |-> w, seed_arg |-> PyInt(w)]

\* the records an earlier, finished evaluate call left under one key
OldBatch ==
    LET out == evaluate_outcome(WriterSelf(0, Config(<<G_f1>>, <<>>)),
                                builtin_available_metrics, <<1, 2>>, <<0, 1>>,
                                MT_Test)
    IN  [i \in DOMAIN out.evaluations |->
            StoredRow(stamp(out.evaluations[i], UnitOf(1, 1)), 0, i)]

ConcurrentInit ==
    /\ EvaluatorInit
    /\ BinarizerIdle
    /\ w_store \in {[t \in Tables |-> <<>>],
                    [t \in Tables |-> IF t = "TestEvaluation" THEN OldBatch
                                      ELSE <<>>]}
    /\ w_writers = [w \in Writers |-> NoWriter]
    /\ w_commits = <<>>

\* evaluate up to the call of _write_to_db (lines 214-297)
WEvaluate(w) ==
    /\ w_writers[w].pc = "start"
    /\ \E config \in ConcurrentDom.configs, data \in ConcurrentDom.datasets,
          unit \in ConcurrentDom.units,
          matrix_type \in ConcurrentDom.matrix_types :
          LET out == evaluate_outcome(WriterSelf(w, config), available_metrics,
                                      data.predictions_proba, data.labels,
                                      matrix_type)
          IN  w_writers' =
                  [w_writers EXCEPT
                      ![w] = [@ EXCEPT
                                 !.pc = IF out.error = "none" THEN "write"
                                        ELSE "raised",
                                 !.unit = unit,
                                 !.matrix_type = matrix_type,
                                 !.evaluations = out.evaluations]]
    /\ UNCHANGED <<w_store, w_commits, evaluator_vars, binarizer_vars>>

\* lines 329-333
WBegin(w) ==
    /\ w_writers[w].pc = "write"
    /\ w_writers' =
           [w_writers EXCEPT
               ![w] = [@ EXCEPT
                          !.pc = "opened",
                          !.session =
                              [NoWriterSession EXCEPT
                                  !.open = TRUE,
                                  !.table_obj =
                                      writer_table_obj(
                                          w_writers[w].matrix_type)]]]
    /\ UNCHANGED <<w_store, w_commits, evaluator_vars, binarizer_vars>>

\* lines 335-341; the statement waits while a row it matches is locked
WDelete(w) ==
    /\ w_writers[w].pc = "opened"
    /\ matching_rows(w_store, w_writers[w].session.table_obj,
                     w_writers[w].unit)
           \cap locked_by_others(w_writers, w) = {}
    /\ w_writers' =
           [w_writers EXCEPT
               ![w] = [@ EXCEPT
                          !.pc = "deleted",
                          !.session = session_delete(w_store, @,
                                                    w_writers[w].unit)]]
    /\ UNCHANGED <<w_store, w_commits, evaluator_vars, binarizer_vars>>

\* lines 343-348, one evaluation
WAdd(w) ==
    /\ w_writers[w].pc = "deleted"
    /\ Len(w_writers[w].session.pending) < Len(w_writers[w].evaluations)
    /\ w_writers' =
           [w_writers EXCEPT
               ![w] = [@ EXCEPT
                          !.session =
                              write_add(@,
                                        w_writers[w].evaluations[
                                            Len(@.pending) + 1],
                                        w_writers[w].unit)]]
    /\ UNCHANGED <<w_store, w_commits, evaluator_vars, binarizer_vars>>

\* line 349
WCommit(w) ==
    /\ w_writers[w].pc = "deleted"
    /\ Len(w_writers[w].session.pending) = Len(w_writers[w].evaluations)
    /\ w_store' = session_commit(w_store, w_writers[w].session, w)
    /\ w_commits' = Append(w_commits, w)
    /\ w_writers' =
           [w_writers EXCEPT
               ![w] = [@ EXCEPT
                          !.pc = "committed",
                          !.session = [@ EXCEPT !.deleted = {},
                                                !.pending = <<>>]]]
    /\ UNCHANGED <<evaluator_vars, binarizer_vars>>

\* line 350, and evaluate returns (line 306)
WClose(w) ==
    /\ w_writers[w].pc = "committed"
    /\ w_writers' =
           [w_writers EXCEPT
               ![w] = [@ EXCEPT !.pc = "returned",
                                !.session = NoWriterSession]]
    /\ UNCHANGED <<w_store, w_commits, evaluator_vars, binarizer_vars>>

ConcurrentNext ==
    \E w \in Writers :
        \/ WEvaluate(w)
        \/ WBegin(w)
        \/ WDelete(w)
        \/ WAdd(w)
        \/ WCommit(w)
        \/ WClose(w)

SpecConcurrent == ConcurrentInit /\ [][ConcurrentNext]_vars

(***************************************************************************)
(* Claims about generate_binary_at_x, checked under SpecBinarize.          *)
(***************************************************************************)
Min(a, b) == IF a <= b THEN a ELSE b

Ones(seq) == Cardinality({i \in DOMAIN seq : seq[i] = 1})

\* k ones followed by n - k zeros
OnesThenZeros(n, k) == [i \in 1..n |-> IF i <= k THEN 1 ELSE 0]

\* C6: for every input length n and cutoff, generate_binary_at_x returns a
\* sequence of length n made of k ones followed by n - k zeros, where
\* k = min(n, cutoff_index), cutoff_index = floor(n * cutoff / 100) for
\* 'percentile' and the cutoff itself for 'top_n'.
C6_OnesThenZerosAtFloor ==
    b_unit \in Units =>
        LET n == Len(b_predictions)
            c == IF b_unit = "percentile" THEN (n * b_x_value) \div 100
                 ELSE b_x_value
        IN  b_binary = OnesThenZeros(n, Min(n, c))

\* C10: for every input length n and every pair of percentile cutoffs
\* p1 < p2, each position generate_binary_at_x marks 1 under p1 is also
\* marked 1 under p2 (here p2 is the cutoff of the call just made, p1 every
\* smaller cutoff on the same list).
C10_PercentileMonotone ==
    b_unit = "percentile" =>
        \A p1 \in 0..MaxCutoff :
            p1 < b_x_value =>
                LET under_p1 == generate_binary_at_x(b_predictions, p1, "percentile")
                IN  \A i \in DOMAIN under_p1 : under_p1[i] = 1 => b_binary[i] = 1

\* a percentile call that leaves some position unmarked although a smaller
\* cutoff already marks one
C10_Witness ==
    /\ b_unit = "percentile"
    /\ \E i \in DOMAIN b_binary : b_binary[i] = 0
    /\ \E p1 \in 0..MaxCutoff :
          /\ p1 < b_x_value
          /\ Ones(generate_binary_at_x(b_predictions, p1, "percentile")) > 0
          /\ Ones(generate_binary_at_x(b_predictions, p1, "percentile")) < Ones(b_binary)

(***************************************************************************)
(* Claims about the store, checked under Spec.                             *)
(***************************************************************************)
\* the key a stored row carries, and the key of an evaluation unit
RowKey(row) ==
    <<row.model_id, row.evaluation_start_time, row.evaluation_end_time,
      row.as_of_date_frequency>>

UnitKey(unit) ==
    <<unit.model_id, unit.evaluation_start_time, unit.evaluation_end_time,
      unit.as_of_date_frequency>>

\* the rows an outside reader sees in a table under a key, in order
Visible(table, unit) ==
    SelectSeq(table, LAMBDA row : RowKey(row) = UnitKey(unit))

\* the batch of the evaluate call in hand, as it is to be stored
NewBatch ==
    [i \in DOMAIN call.evaluations |->
        [model_id |-> call.unit.model_id,
         evaluation_start_time |-> call.unit.evaluation_start_time,
         evaluation_end_time |-> call.unit.evaluation_end_time,
         as_of_date_frequency |-> call.unit.as_of_date_frequency,
         metric |-> call.evaluations[i].metric,
         parameter |-> call.evaluations[i].parameter,
         value |-> call.evaluations[i].value,
         num_labeled_examples |-> call.evaluations[i].num_labeled_examples,
         num_labeled_above_threshold |->
             call.evaluations[i].num_labeled_above_threshold,
         num_positive_labels |-> call.evaluations[i].num_positive_labels,
         sort_seed |-> call.evaluations[i].sort_seed,
         table_obj |-> call.evaluations[i].table_obj]]

\* the table a matrix_type names, compared case-insensitively
TargetOf(matrix_type) ==
    IF lower(matrix_type) = <<"t", "r", "a", "i", "n">> THEN "TrainEvaluation"
    ELSE IF lower(matrix_type) = <<"t", "e", "s", "t">> THEN "TestEvaluation"
    ELSE "neither"

\* C1: after any sequence of evaluate calls over any mix of keys (model_id,
\* evaluation_start_time, evaluation_end_time, as_of_date_frequency,
\* matrix_type), whenever no call is running the records stored under each
\* key are exactly the batch of the most recent successful evaluate call for
\* that key, in order and without duplicates, whatever the size of the batch
\* it replaced; and nothing is stored under a key no call has written.
C1_LastWriteWins ==
    pc = "idle" =>
        /\ \A e \in last_batch :
               Visible(tables[e.table_obj], e.unit) = e.rows
        /\ \A t \in Tables : \A i \in DOMAIN tables[t] :
               \E e \in last_batch :
                   e.table_obj = t /\ RowKey(tables[t][i]) = UnitKey(e.unit)

\* two successful calls under one key, the second with fewer records than
\* the first
C1_Witness ==
    /\ pc = "idle"
    /\ \E e \in last_batch :
          /\ Len(e.rows) > 0
          /\ e.replaced > Len(e.rows)
          /\ Visible(tables[e.table_obj], e.unit) = e.rows

\* some group selected for the call names a metric the registry lacks
NamesUnknownMetric ==
    \E g \in DOMAIN call.groups :
        \E k \in DOMAIN call.groups[g].metrics :
            call.groups[g].metrics[k] \notin DOMAIN call.registry

\* C2: if any metric group selected for an evaluate call names a metric that
\* is not in the registry, in whichever group or position, the call fails
\* and the write step is never reached: the stored records are as they were
\* before the call.
C2_UnknownMetricFailsWithoutWrite ==
    (call.status # "none" /\ NamesUnknownMetric) =>
        /\ call.status = "raised"
        /\ call.error # "none"
        /\ pc = "idle"
        /\ tables = pre_tables

\* C5: at every moment, while a write is in progress, between retries and
\* after a write has failed for good, the records an outside reader sees
\* under each key are either the complete batch that was there before the
\* evaluate call or, under the call's own key, the complete new batch.
C5_OldOrNewBatch ==
    call.status # "none" =>
        \A t \in Tables : \A u \in AllUnits :
            \/ Visible(tables[t], u) = Visible(pre_tables[t], u)
            \/ /\ t = TargetOf(call.matrix_type)
               /\ u = call.unit
               /\ Visible(tables[t], u) = NewBatch

\* a retried write that has deleted the old records and inserted only part
\* of the new batch inside its transaction, the old batch still in sight
C5_Witness ==
    /\ pc = "deleted"
    /\ attempts >= 1
    /\ session.deleted
    /\ Len(session.pending) > 0
    /\ Len(session.pending) < Len(call.evaluations)
    /\ Visible(tables[session.table_obj], call.unit) # <<>>
    /\ Visible(tables[session.table_obj], call.unit) # NewBatch
    /\ Visible(tables[session.table_obj], call.unit)
           = Visible(pre_tables[session.table_obj], call.unit)

\* C8: an evaluate call whose matrix_type is neither 'train' nor 'test',
\* compared case-insensitively, fails with an error before any metric is
\* computed and before the write step, so no record is deleted or inserted;
\* and neither choice of a target table maps such a value to the Train or
\* the Test table.
C8_UnrecognizedMatrixTypeFails ==
    (call.status # "none" /\ TargetOf(call.matrix_type) = "neither") =>
        /\ call.status = "raised"
        /\ call.error = "ValueError"
        /\ gen_calls = <<>>
        /\ pc = "idle"
        /\ session = NoSession
        /\ tables = pre_tables
        /\ generator_table_obj(call.matrix_type) \notin Tables
        /\ writer_table_obj(call.matrix_type) \notin Tables

\* such a call by an evaluator that has groups for both targets, made under
\* a key that holds records
C8_Witness ==
    /\ call.status = "raised"
    /\ TargetOf(call.matrix_type) = "neither"
    /\ call.self.metric_groups # <<>>
    /\ call.self.training_metric_groups # <<>>
    /\ \E t \in Tables : Visible(tables[t], call.unit) # <<>>

(***************************************************************************)
(* Claims about the generator, checked under SpecGenerate.                 *)
(***************************************************************************)
\* C3: when the generator is asked for a metric name that is not
\* registered, the error it raises is UnknownMetricError.
C3_RaisesUnknownMetricError ==
    \A k \in DOMAIN gen_calls :
        (\E m \in DOMAIN gen_calls[k].args.metrics :
             gen_calls[k].args.metrics[m] \notin DOMAIN call.registry)
        => gen_calls[k].outcome.error = "UnknownMetricError"

\* C7: in every record produced by one generator call,
\* num_labeled_above_threshold is the number of 1s in the binary predictions
\* passed to that call, num_labeled_examples the length of the labels passed
\* to it and num_positive_labels the number of those labels equal to 1, so
\* all records of the call carry the same three counts.
C7_CountsOfTheCall ==
    \A k \in DOMAIN gen_calls :
        LET recs == gen_calls[k].outcome.evaluations
            given == gen_calls[k].args
        IN  \A i \in DOMAIN recs :
                /\ recs[i].num_labeled_above_threshold
                       = Ones(given.predictions_binary)
                /\ recs[i].num_labeled_examples = Len(given.labels)
                /\ recs[i].num_positive_labels = Ones(given.labels)

\* a generator call that returned several records for binary predictions
\* with both classes and labels of which some but not all are 1
C7_Witness ==
    \E k \in DOMAIN gen_calls :
        LET recs == gen_calls[k].outcome.evaluations
            given == gen_calls[k].args
        IN  /\ Len(recs) >= 2
            /\ Ones(given.predictions_binary) > 0
            /\ Ones(given.predictions_binary) < Len(given.predictions_binary)
            /\ Ones(given.labels) > 0
            /\ Ones(given.labels) < Len(given.labels)
            /\ recs[1].num_labeled_above_threshold
                   = Ones(given.predictions_binary)

(***************************************************************************)
(* Claims about the constructor, checked under SpecConstruct.              *)
(***************************************************************************)
\* the last constructor call was given a custom metric without a
\* greater_is_better attribute or with one that is not a boolean
DeclaresNonBoolean ==
    /\ ctor.called
    /\ ~ctor.custom_metrics.none
    /\ \E i \in DOMAIN ctor.custom_metrics.items :
          ctor.custom_metrics.items[i].met.greater_is_better.t # "bool"

\* C4: constructing an evaluator with a custom metric whose function has no
\* greater_is_better attribute, or whose greater_is_better is anything other
\* than a boolean, fails with a validation error, and none of the supplied
\* custom metrics is added to the registry.
C4_NonBooleanRejected ==
    DeclaresNonBoolean =>
        /\ ctor.error = "ValueError"
        /\ available_metrics = ctor.registry_before

\* C9: for every integer seed the caller supplies at construction, every
\* evaluate call of that evaluator co-sorts with exactly that seed and
\* stamps exactly that seed as sort_seed on every record it produces.
C9_SuppliedSeedUsed ==
    (call.status # "none" /\ call.self.seed_arg.t = "int") =>
        /\ call.sorted.seed = call.self.seed_arg.v
        /\ \A k \in DOMAIN gen_calls :
               \A i \in DOMAIN gen_calls[k].outcome.evaluations :
                   gen_calls[k].outcome.evaluations[i].sort_seed
                       = call.self.seed_arg.v

(***************************************************************************)
(* Claims about the arguments evaluate hands to the generator, checked     *)
(* under SpecGenerate.                                                     *)
(***************************************************************************)
\* C11: for a metric group without a thresholds key, the score sequence
\* evaluate hands to the generator is the co-sorted score sequence, so that
\* the i-th score, the i-th binary prediction and the i-th label belong to
\* the same input entity.
C11_UnthresholdedScoresSorted ==
    \A k \in DOMAIN gen_calls :
        gen_calls[k].args.threshold_config = <<>> =>
            /\ ~gen_calls[k].args.predictions_proba.none
            /\ gen_calls[k].args.predictions_proba.list
                   = call.sorted.predictions_proba
            /\ gen_calls[k].args.labels = call.sorted.labels

\* the sorted positions whose label is not NaN, in increasing order
RECURSIVE PresentFrom(_, _)
PresentFrom(labels, i) ==
    IF i > Len(labels) THEN <<>>
    ELSE (IF labels[i] # NaN THEN <<i>> ELSE <<>>) \o PresentFrom(labels, i + 1)

\* the binary value of sorted position i under a threshold, before masking:
\* 1 for the first cutoff positions
ClassAt(i, threshold, n) ==
    LET cutoff == IF threshold.key = "pct"
                  THEN percentile_cutoff(n, threshold.val)
                  ELSE threshold.val
    IN  IF i <= cutoff THEN 1 ELSE 0

\* C12: in every generator call made for a percentile or top_n threshold,
\* the label sequence contains no NaN, the binary predictions and the labels
\* have the same length, the number of non-NaN labels, and the j-th entry of
\* each comes from the same sorted position, the binary value being the one
\* assigned to that position before masking.
C12_ThresholdedCallsMasked ==
    \A k \in DOMAIN gen_calls :
        gen_calls[k].args.threshold_config # <<>> =>
            LET given == gen_calls[k].args
                present == PresentFrom(call.sorted.labels, 1)
            IN  /\ \A j \in DOMAIN given.labels : given.labels[j] # NaN
                /\ Len(given.labels) = Len(present)
                /\ Len(given.predictions_binary) = Len(present)
                /\ \A j \in DOMAIN present :
                       /\ given.labels[j] = call.sorted.labels[present[j]]
                       /\ given.predictions_binary[j]
                              = ClassAt(present[j], given.threshold_config[1],
                                        Len(call.sorted.labels))

\* a thresholded call whose first sorted position has a NaN label and is
\* above the threshold, while the first entry handed over is below it
C12_Witness ==
    \E k \in DOMAIN gen_calls :
        LET given == gen_calls[k].args
        IN  /\ given.threshold_config # <<>>
            /\ gen_calls[k].outcome.error = "none"
            /\ call.sorted.labels # <<>>
            /\ call.sorted.labels[1] = NaN
            /\ ClassAt(1, given.threshold_config[1], Len(call.sorted.labels)) = 1
            /\ given.predictions_binary # <<>>
            /\ given.predictions_binary[1] = 0
            /\ Len(given.labels) < Len(call.sorted.labels)

(***************************************************************************)
(* Claims about concurrent callers, checked under SpecConcurrent.          *)
(***************************************************************************)
\* the rows stored in a table under a key, in order, without their identity
StoredUnder(table, unit) ==
    LET under == SelectSeq(table,
                           LAMBDA stored : RowKey(stored.data) = UnitKey(unit))
    IN  [i \in DOMAIN under |-> under[i].data]

\* the batch of caller w, as it is to be stored
BatchOf(w) ==
    [i \in DOMAIN w_writers[w].evaluations |->
        [model_id |-> w_writers[w].unit.model_id,
         evaluation_start_time |-> w_writers[w].unit.evaluation_start_time,
         evaluation_end_time |-> w_writers[w].unit.evaluation_end_time,
         as_of_date_frequency |-> w_writers[w].unit.as_of_date_frequency,
         metric |-> w_writers[w].evaluations[i].metric,
         parameter |-> w_writers[w].evaluations[i].parameter,
         value |-> w_writers[w].evaluations[i].value,
         num_labeled_examples |->
             w_writers[w].evaluations[i].num_labeled_examples,
         num_labeled_above_threshold |->
             w_writers[w].evaluations[i].num_labeled_above_threshold,
         num_positive_labels |->
             w_writers[w].evaluations[i].num_positive_labels,
         sort_seed |-> w_writers[w].evaluations[i].sort_seed,
         table_obj |-> w_writers[w].evaluations[i].table_obj]]

\* C13: when two evaluate calls for the same key run concurrently, each in
\* its own session and transaction, then once both have committed the store
\* holds under that key exactly the batch of the transaction that committed
\* last, never the union of the two batches or a mixture of them.
C13_LastCommitWins ==
    (/\ Len(w_commits) = 2
     /\ w_writers[1].unit = w_writers[2].unit
     /\ TargetOf(w_writers[1].matrix_type) = TargetOf(w_writers[2].matrix_type))
    => StoredUnder(w_store[TargetOf(w_writers[1].matrix_type)],
                   w_writers[1].unit)
           = BatchOf(w_commits[2])
====
